---- MODULE Spec2Model ----
(***************************************************************************)
(* Memory-block layer of the persistent object heap                        *)
(* (src/src/libpmemobj/memblock.c).                                        *)
(*                                                                         *)
(* One zone is modelled.  Its chunk-header array holds NHuge slots used by *)
(* huge chunks followed by one run.  A call of a memblock operation is a   *)
(* straight-line program of micro-operations (store, persist, redo-log     *)
(* append, assertion failure) executed one at a time in program order, so  *)
(* that the order of the stores inside one call is observable.             *)
(***************************************************************************)
EXTENDS Integers, Sequences, FiniteSets, TLC

(***************************************************************************)
(* Bounds of the model.                                                    *)
(***************************************************************************)
NHuge == 2          \* chunk-header slots 0..NHuge-1 hold huge chunks
NWords == 2         \* bitmap words of the run that are modelled
MaxOps == 2         \* memblock calls made in one behaviour
MaxCtx == 2         \* entries one operation context may hold
NZones == 2         \* zones of the heap whose offsets are resolved
RunSpan == 2        \* chunks of the run whose offsets are resolved
MaxWrites == 1      \* allocation headers written in one behaviour

(***************************************************************************)
(* Program constants.                                                      *)
(***************************************************************************)
BITS_PER_VALUE == 64
CHUNKSIZE == 262144
RUN_METASIZE == 2048
ZONE_HEADER_SIZE == 64
CHUNK_HEADER_SIZE == 8
ZONE0_OFFSET == 4096
ALLOC_HDR_LEGACY_SIZE == 64
ALLOC_HDR_COMPACT_SIZE == 16
UINT16_RANGE == 65536

\* chunks of one zone (MAX_CHUNK), cut down to the ones modelled
MAX_CHUNK == NHuge + RunSpan
\* sizeof(struct zone): the zone header and the chunk headers
SIZEOF_ZONE == ZONE_HEADER_SIZE + CHUNK_HEADER_SIZE * MAX_CHUNK
ZONE_MAX_SIZE == SIZEOF_ZONE + CHUNKSIZE * MAX_CHUNK

HEADER_TYPES == {"LEGACY", "COMPACT", "NONE"}
CHUNK_FLAGS == {"COMPACT_HEADER", "HEADER_NONE", "ALIGNED"}
MEMBLOCK_STATES == {"ALLOCATED", "FREE", "UNKNOWN"}

\* enum memblock_state values a caller passes as the operation
OPS == {"ALLOCATED", "FREE"}

Bits == 0 .. (BITS_PER_VALUE - 1)

\* UINT64_MAX as the set of its set bits
UINT64_MAX == Bits

\* The zone the operations act on: chunk-header slots 0..NHuge-1 hold huge
\* chunks and slot NHuge the run.  Slot -1 stands for the last 8 bytes of the
\* zone header, which sit right before chunk_headers[0].
RunChunk == NHuge
HugeChunks == 0 .. (NHuge - 1)
Slots == {<<0, s>> : s \in -1 .. RunChunk}

VARIABLES
    debug,      \* TRUE: the build has DEBUG defined, ASSERT aborts
    hdr,        \* chunk headers as the CPU sees them, by <<zone, slot>>
    dirty,      \* slots stored to and not yet persisted
    bitmap,     \* bitmap words of the run, each the set of its set bits
    ctx,        \* the operation context: redo entries in append order
    prog,       \* micro-operations the call in progress has still to do
    call,       \* the call in progress, or the last one made
    ret,        \* what the last call returned ("PENDING" while it runs)
    nops,       \* calls made so far
    last,       \* the kind of the last step taken
    run,        \* block_size and alignment of the run at <<zone, chunk>>
    ahdr,       \* allocation headers written, by the offset they start at
    thr         \* the threads working on the run and the run locks held

vars == <<debug, hdr, dirty, bitmap, ctx, prog, call, ret, nops, last, run,
          ahdr, thr>>

\* heap_get_chunk_hdr
heap_get_chunk_hdr(m) == hdr[<<m.zone_id, m.chunk_id>>]

(***************************************************************************)
(* header_type_to_flag                                                     *)
(***************************************************************************)
header_type_to_flag(t) ==
    CASE t = "LEGACY" -> {}
      [] t = "COMPACT" -> {"COMPACT_HEADER"}
      [] t = "NONE" -> {"HEADER_NONE"}

(***************************************************************************)
(* chunk_get_chunk_hdr_value: the 64-bit image of a chunk header.  The     *)
(* code copies the struct (type:16, flags:16, size_idx:32) into a uint64;  *)
(* the image is kept as the three fields it packs.                         *)
(***************************************************************************)
chunk_get_chunk_hdr_value(type, flags, size_idx) ==
    [type |-> type, flags |-> flags, size_idx |-> size_idx]

ZeroHdr == chunk_get_chunk_hdr_value("UNKNOWN", {}, 0)

(***************************************************************************)
(* Micro-operations of a call.                                             *)
(***************************************************************************)
HdrAddr(zone_id, slot) == <<"hdr", <<zone_id, slot>>>>
BitmapAddr(w) == <<"bitmap", w>>

\* util_atomic_store_explicit64 / a plain store to persistent memory
Store(a, v) == [k |-> "store", a |-> a, v |-> v, op |-> "SET", kind |-> "NONE"]
\* pmemops_persist
Persist(a) == [k |-> "persist", a |-> a, v |-> {}, op |-> "SET", kind |-> "NONE"]
\* operation_add_typed_entry
AddTyped(a, v, op, kind) == [k |-> "add", a |-> a, v |-> v, op |-> op, kind |-> kind]
\* operation_add_entry: an address inside the pool gives a persistent entry
AddEntry(a, v, op) == AddTyped(a, v, op, "LOG_PERSISTENT")
\* a failed ASSERT of a DEBUG build
Abort == [k |-> "abort", a |-> <<"none", 0>>, v |-> {}, op |-> "SET", kind |-> "NONE"]

(***************************************************************************)
(* 64-bit words as sets of bit positions.                                  *)
(***************************************************************************)
\* (1ULL << n) - 1 for n < 64
LowBits(n) == {i \in Bits : i < n}
\* x << n on a uint64: bits shifted past bit 63 are lost
Shl(x, n) == {i + n : i \in {j \in x : j + n < BITS_PER_VALUE}}
\* ~x
Not64(x) == Bits \ x

\* What a shift by a count >= 64 (undefined in C) can give: the count taken
\* modulo 64, as the x86 and arm64 shift instructions do, or zero.
UB_SHIFTS == {"wrap", "zero"}

\* 1ULL << n
OneShl(n, ub) ==
    IF n < BITS_PER_VALUE THEN {n}
    ELSE IF ub = "wrap" THEN {n % BITS_PER_VALUE} ELSE {}

\* (1ULL << n) - 1ULL
OneShlMinusOne(n, ub) ==
    IF n < BITS_PER_VALUE THEN LowBits(n)
    ELSE IF ub = "wrap" THEN LowBits(n % BITS_PER_VALUE) ELSE UINT64_MAX

(***************************************************************************)
(* Faulty variants of huge_prep_operation_hdr, used to show that the       *)
(* properties below depend on it: the footer established first; the footer *)
(* one slot too far; the context ignored.                                  *)
(***************************************************************************)
huge_prep_footer_first(m, op, ctxnull) ==
    LET h == HdrAddr(m.zone_id, m.chunk_id)
        val == chunk_get_chunk_hdr_value(
                   IF op = "ALLOCATED" THEN "USED" ELSE "FREE",
                   heap_get_chunk_hdr(m).flags, m.size_idx)
        head == IF ctxnull
                THEN <<Store(h, val), Persist(h)>>
                ELSE <<AddEntry(h, val, "SET")>>
        f == HdrAddr(m.zone_id, m.chunk_id + m.size_idx - 1)
        fval == chunk_get_chunk_hdr_value("FOOTER", {}, m.size_idx)
        footer == IF ctxnull
                  THEN <<Store(f, fval)>>
                  ELSE <<AddTyped(f, fval, "SET", "LOG_TRANSIENT")>>
    IN  IF m.size_idx = 1 THEN head ELSE footer \o head

huge_prep_footer_off_by_one(m, op, ctxnull) ==
    LET h == HdrAddr(m.zone_id, m.chunk_id)
        val == chunk_get_chunk_hdr_value(
                   IF op = "ALLOCATED" THEN "USED" ELSE "FREE",
                   heap_get_chunk_hdr(m).flags, m.size_idx)
        head == IF ctxnull
                THEN <<Store(h, val), Persist(h)>>
                ELSE <<AddEntry(h, val, "SET")>>
        f == HdrAddr(m.zone_id, m.chunk_id + m.size_idx)
        fval == chunk_get_chunk_hdr_value("FOOTER", {}, m.size_idx)
        footer == IF ctxnull
                  THEN <<Store(f, fval)>>
                  ELSE <<AddTyped(f, fval, "SET", "LOG_TRANSIENT")>>
    IN  IF m.size_idx = 1 THEN head ELSE head \o footer

huge_prep_ignores_ctx(m, op, ctxnull) ==
    LET h == HdrAddr(m.zone_id, m.chunk_id)
        val == chunk_get_chunk_hdr_value(
                   IF op = "ALLOCATED" THEN "USED" ELSE "FREE",
                   heap_get_chunk_hdr(m).flags, m.size_idx)
        head == <<Store(h, val), Persist(h)>>
        f == HdrAddr(m.zone_id, m.chunk_id + m.size_idx - 1)
        fval == chunk_get_chunk_hdr_value("FOOTER", {}, m.size_idx)
        footer == <<Store(f, fval)>>
    IN  IF m.size_idx = 1 THEN head ELSE head \o footer

\* faulty variant: the head value is packed without the chunk's flags
huge_prep_drops_flags(m, op, ctxnull) ==
    LET h == HdrAddr(m.zone_id, m.chunk_id)
        val == chunk_get_chunk_hdr_value(
                   IF op = "ALLOCATED" THEN "USED" ELSE "FREE",
                   {}, m.size_idx)
        head == IF ctxnull
                THEN <<Store(h, val), Persist(h)>>
                ELSE <<AddEntry(h, val, "SET")>>
        f == HdrAddr(m.zone_id, m.chunk_id + m.size_idx - 1)
        fval == chunk_get_chunk_hdr_value("FOOTER", {}, m.size_idx)
        footer == IF ctxnull
                  THEN <<Store(f, fval)>>
                  ELSE <<AddTyped(f, fval, "SET", "LOG_TRANSIENT")>>
    IN  IF m.size_idx = 1 THEN head ELSE head \o footer

(***************************************************************************)
(* huge_prep_operation_hdr: the micro-operations of one call, in program   *)
(* order.  ctxnull is ctx == NULL.                                         *)
(***************************************************************************)
huge_prep_operation_hdr(m, op, ctxnull) ==
    LET h == HdrAddr(m.zone_id, m.chunk_id)
        val == chunk_get_chunk_hdr_value(
                   IF op = "ALLOCATED" THEN "USED" ELSE "FREE",
                   heap_get_chunk_hdr(m).flags, m.size_idx)
        head == IF ctxnull
                THEN <<Store(h, val), Persist(h)>>
                ELSE <<AddEntry(h, val, "SET")>>
        f == HdrAddr(m.zone_id, m.chunk_id + m.size_idx - 1)
        fval == chunk_get_chunk_hdr_value("FOOTER", {}, m.size_idx)
        footer == IF ctxnull
                  THEN <<Store(f, fval)>>
                  ELSE <<AddTyped(f, fval, "SET", "LOG_TRANSIENT")>>
    IN  IF m.size_idx = 1 THEN head ELSE head \o footer

(***************************************************************************)
(* run_prep_operation_hdr                                                  *)
(***************************************************************************)
\* faulty variant: the mask is not shifted to the block's position
run_bmask_not_shifted(m, ub) ==
    IF m.size_idx = BITS_PER_VALUE
    THEN UINT64_MAX
    ELSE OneShlMinusOne(m.size_idx, ub)

run_bmask(m, ub) ==
    IF m.size_idx = BITS_PER_VALUE
    THEN UINT64_MAX
    ELSE Shl(OneShlMinusOne(m.size_idx, ub), m.block_off % BITS_PER_VALUE)

run_prep_operation_hdr(m, op, dbg, ub) ==
    LET bmask == run_bmask(m, ub)
        bpos == m.block_off \div BITS_PER_VALUE
    IN  IF dbg /\ ~(m.size_idx <= BITS_PER_VALUE)
        THEN <<Abort>>
        ELSE IF dbg /\ m.size_idx = BITS_PER_VALUE
                    /\ m.block_off % BITS_PER_VALUE # 0
        THEN <<Abort>>
        ELSE IF op = "ALLOCATED"
        THEN <<AddEntry(BitmapAddr(bpos), bmask, "OR")>>
        ELSE IF op = "FREE"
        THEN <<AddEntry(BitmapAddr(bpos), Not64(bmask), "AND")>>
        ELSE IF dbg THEN <<Abort>> ELSE <<>>

(***************************************************************************)
(* huge_get_state, run_get_state                                           *)
(***************************************************************************)
huge_get_state(m) ==
    IF heap_get_chunk_hdr(m).type = "USED" THEN "ALLOCATED"
    ELSE IF heap_get_chunk_hdr(m).type = "FREE" THEN "FREE"
    ELSE "UNKNOWN"

\* !BIT_IS_CLR(bitmap, i)
BitIsSet(word, i, ub) == (word \cap OneShl(i, ub)) # {}

\* faulty variant: the loop runs one bit too far (i <= b_last)
run_get_state_inclusive(m, dbg, ub) ==
    LET v == m.block_off \div BITS_PER_VALUE
        word == bitmap[v]
        b == m.block_off % BITS_PER_VALUE
        b_last == b + m.size_idx
    IN  IF dbg /\ heap_get_chunk_hdr(m).type # "RUN" THEN "ABORT"
        ELSE IF dbg /\ ~(b_last <= BITS_PER_VALUE) THEN "ABORT"
        ELSE IF \E i \in b .. b_last : BitIsSet(word, i, ub)
        THEN "ALLOCATED"
        ELSE "FREE"

run_get_state(m, dbg, ub) ==
    LET v == m.block_off \div BITS_PER_VALUE
        word == bitmap[v]
        b == m.block_off % BITS_PER_VALUE
        b_last == b + m.size_idx
    IN  IF dbg /\ heap_get_chunk_hdr(m).type # "RUN" THEN "ABORT"
        ELSE IF dbg /\ ~(b_last <= BITS_PER_VALUE) THEN "ABORT"
        ELSE IF \E i \in b .. (b_last - 1) : BitIsSet(word, i, ub)
        THEN "ALLOCATED"
        ELSE "FREE"

(***************************************************************************)
(* huge_ensure_header_type                                                 *)
(***************************************************************************)
\* faulty variant: the flag bit is toggled instead of set
huge_ensure_toggles(m, t, dbg) ==
    LET h == HdrAddr(m.zone_id, m.chunk_id)
        old == heap_get_chunk_hdr(m)
        f == header_type_to_flag(t)
    IN  IF dbg /\ old.type # "FREE"
        THEN <<Abort>>
        ELSE <<Store(h, [old EXCEPT !.flags = (@ \ f) \cup (f \ @)]),
               Persist(h)>>

huge_ensure_header_type(m, t, dbg) ==
    LET h == HdrAddr(m.zone_id, m.chunk_id)
        old == heap_get_chunk_hdr(m)
        f == header_type_to_flag(t)
    IN  IF dbg /\ old.type # "FREE"
        THEN <<Abort>>
        ELSE IF (old.flags \cap f) = {}
        THEN <<Store(h, [old EXCEPT !.flags = @ \cup f]), Persist(h)>>
        ELSE <<>>

(***************************************************************************)
(* The operation context (redo log), which the heap owns: entries are      *)
(* applied in append order when the context is processed.                  *)
(***************************************************************************)
ApplyOp(old, e) ==
    CASE e.op = "SET" -> e.v
      [] e.op = "OR" -> old \cup e.v
      [] e.op = "AND" -> old \cap e.v

RECURSIVE ApplyEntries(_, _, _)
ApplyEntries(mem, es, region) ==
    IF es = <<>> THEN mem
    ELSE LET e == Head(es)
         IN  IF e.a[1] = region
             THEN ApplyEntries([mem EXCEPT ![e.a[2]] = ApplyOp(@, e)],
                               Tail(es), region)
             ELSE ApplyEntries(mem, Tail(es), region)

\* slots a processed context leaves stored but not persisted / persisted
RECURSIVE DirtyAfter(_, _)
DirtyAfter(d, es) ==
    IF es = <<>> THEN d
    ELSE LET e == Head(es)
         IN  IF e.a[1] # "hdr" THEN DirtyAfter(d, Tail(es))
             ELSE IF e.kind = "LOG_TRANSIENT"
             THEN DirtyAfter(d \cup {e.a[2]}, Tail(es))
             ELSE DirtyAfter(d \ {e.a[2]}, Tail(es))

(***************************************************************************)
(* Inputs.                                                                 *)
(***************************************************************************)
Block(chunk_id, block_off, size_idx) ==
    [zone_id |-> 0, chunk_id |-> chunk_id, block_off |-> block_off,
     size_idx |-> size_idx]

\* huge blocks: any span of the huge slots, and size_idx 0 as a descriptor
\* resolved from an offset alone carries
HugeBlocks ==
    {Block(p[1], 0, p[2]) :
        p \in {q \in HugeChunks \X (0 .. NHuge) : q[1] + q[2] <= NHuge}}

RunOffs == {0, 1, BITS_PER_VALUE - 1}
               \cup {w * BITS_PER_VALUE : w \in 1 .. (NWords - 1)}
RunSizes == {1, 2, BITS_PER_VALUE, BITS_PER_VALUE + 1}
RunBlocks == {Block(RunChunk, o, s) : o \in RunOffs, s \in RunSizes}

NoBlock == Block(0, 0, 0)
NoRes == [m |-> NoBlock, residual |-> 0, padding |-> 0, size |-> 0]
\* no thread works on the run
NoThreads == [held |-> {}, init |-> {}, th |-> <<>>]

NoCall == [fn |-> "none", m |-> NoBlock, op |-> "FREE", t |-> "LEGACY",
           ctxnull |-> FALSE, steps |-> <<>>, off |-> 0, want |-> FALSE,
           res |-> NoRes]

Call(fn, m, op, t, ctxnull, steps) ==
    [fn |-> fn, m |-> m, op |-> op, t |-> t, ctxnull |-> ctxnull,
     steps |-> steps, off |-> 0, want |-> FALSE, res |-> NoRes]

Adds(steps) == Cardinality({i \in DOMAIN steps : steps[i].k = "add"})

(***************************************************************************)
(* State and actions.                                                      *)
(***************************************************************************)
TypeOK ==
    /\ debug \in BOOLEAN
    /\ DOMAIN hdr = Slots
    /\ dirty \subseteq Slots
    /\ DOMAIN bitmap = 0 .. (NWords - 1)
    /\ \A w \in DOMAIN bitmap : bitmap[w] \subseteq Bits
    /\ Len(ctx) <= MaxCtx
    /\ nops \in 0 .. MaxOps

\* The zone with every huge slot a free one-unit chunk carrying the flags f,
\* and an empty run.
InitWith(f) ==
    /\ debug \in BOOLEAN
    /\ hdr = [s \in Slots |->
                IF s[2] \in HugeChunks
                THEN chunk_get_chunk_hdr_value("FREE", f, 1)
                ELSE IF s[2] = RunChunk
                THEN chunk_get_chunk_hdr_value("RUN", {}, 1)
                ELSE ZeroHdr]
    /\ dirty = {}
    /\ bitmap = [w \in 0 .. (NWords - 1) |-> {}]
    /\ ctx = <<>>
    /\ prog = <<>>
    /\ call = NoCall
    /\ ret = "NONE"
    /\ nops = 0
    /\ last = "init"
    /\ run = [s \in {<<0, RunChunk>>} |-> [block_size |-> 128, alignment |-> 0]]
    /\ ahdr = <<>>
    /\ thr = NoThreads

Init == InitWith({})

\* the huge chunks may have had their header flavor set before, and may
\* carry the ALIGNED flag
InitHuge ==
    \E f \in SUBSET {"COMPACT_HEADER", "HEADER_NONE"}
              \cup {{"ALIGNED"}, {"ALIGNED", "COMPACT_HEADER"}} : InitWith(f)

Idle == prog = <<>> /\ ret # "ABORT"

\* a call whose body is the program `steps`
Start(c) ==
    /\ Idle
    /\ nops < MaxOps
    /\ Len(ctx) + Adds(c.steps) <= MaxCtx
    /\ call' = c
    /\ prog' = c.steps
    /\ ret' = IF c.steps = <<>> THEN "OK" ELSE "PENDING"
    /\ nops' = nops + 1
    /\ last' = "call"
    /\ UNCHANGED <<debug, hdr, dirty, bitmap, ctx, run, ahdr, thr>>

HugePrep ==
    \E m \in HugeBlocks, op \in OPS, ctxnull \in BOOLEAN :
        Start(Call("huge_prep_hdr", m, op, "LEGACY", ctxnull,
                   huge_prep_operation_hdr(m, op, ctxnull)))

\* the shift outcomes to consider for a shift by n
ShiftChoices(n) == IF n < BITS_PER_VALUE THEN {"wrap"} ELSE UB_SHIFTS

RunPrep ==
    \E m \in RunBlocks, op \in MEMBLOCK_STATES :
      \E ub \in ShiftChoices(m.size_idx) :
        Start(Call("run_prep_hdr", m, op, "LEGACY", FALSE,
                   run_prep_operation_hdr(m, op, debug, ub)))

HugeEnsure ==
    \E c \in HugeChunks, t \in HEADER_TYPES :
        LET m == Block(c, 0, hdr[<<0, c>>].size_idx)
        IN  Start(Call("huge_ensure_header_type", m, "FREE", t, TRUE,
                       huge_ensure_header_type(m, t, debug)))

\* a call that only reads: it returns at once
Return(c, r) ==
    /\ Idle
    /\ nops < MaxOps
    /\ call' = c
    /\ ret' = r
    /\ nops' = nops + 1
    /\ last' = "return"
    /\ UNCHANGED <<debug, hdr, dirty, bitmap, ctx, prog, run, ahdr, thr>>

HugeGetState ==
    \E c \in HugeChunks :
        LET m == Block(c, 0, hdr[<<0, c>>].size_idx)
        IN  Return(Call("huge_get_state", m, "FREE", "LEGACY", TRUE, <<>>),
                   huge_get_state(m))

RunGetState ==
    \E m \in RunBlocks :
      \E ub \in ShiftChoices((m.block_off % BITS_PER_VALUE) + m.size_idx - 1) :
        Return(Call("run_get_state", m, "FREE", "LEGACY", TRUE, <<>>),
               run_get_state(m, debug, ub))

\* the next micro-operation of the call in progress
Step ==
    /\ prog # <<>>
    /\ LET s == Head(prog)
       IN  /\ hdr' = IF s.k = "store" /\ s.a[1] = "hdr"
                     THEN [hdr EXCEPT ![s.a[2]] = s.v] ELSE hdr
           /\ dirty' = IF s.k = "store" /\ s.a[1] = "hdr"
                       THEN dirty \cup {s.a[2]}
                       ELSE IF s.k = "persist" /\ s.a[1] = "hdr"
                       THEN dirty \ {s.a[2]}
                       ELSE dirty
           /\ ctx' = IF s.k = "add"
                     THEN Append(ctx, [a |-> s.a, v |-> s.v, op |-> s.op,
                                       kind |-> s.kind])
                     ELSE ctx
           /\ prog' = IF s.k = "abort" THEN <<>> ELSE Tail(prog)
           /\ ret' = IF s.k = "abort" THEN "ABORT"
                     ELSE IF Tail(prog) = <<>> THEN "OK" ELSE "PENDING"
    /\ last' = "step"
    /\ UNCHANGED <<debug, bitmap, call, nops, run, ahdr, thr>>

\* the context is processed
Commit ==
    /\ Idle
    /\ ctx # <<>>
    /\ hdr' = ApplyEntries(hdr, ctx, "hdr")
    /\ bitmap' = ApplyEntries(bitmap, ctx, "bitmap")
    /\ dirty' = DirtyAfter(dirty, ctx)
    /\ ctx' = <<>>
    /\ last' = "commit"
    /\ UNCHANGED <<debug, prog, call, ret, nops, run, ahdr, thr>>

\* the context is dropped without being processed
Discard ==
    /\ Idle
    /\ ctx # <<>>
    /\ ctx' = <<>>
    /\ last' = "discard"
    /\ UNCHANGED <<debug, hdr, dirty, bitmap, prog, call, ret, nops, run, ahdr, thr>>

\* ---------------------------------------------------------------------
\* Block geometry: where a block's data lives and how an offset is
\* resolved back to the block.  Addresses are offsets from the pool base,
\* which is mapped at a multiple of every alignment used here.

LZones == 0 .. (NZones - 1)
RunChunks == RunChunk .. (RunChunk + RunSpan - 1)
LSlots == LZones \X (0 .. (MAX_CHUNK - 1))

ALIGN_UP(x, a) == ((x + a - 1) \div a) * a

CALC_SIZE_IDX(unit_size, size) ==
    IF size = 0 THEN 0 ELSE ((size - 1) \div unit_size) + 1

header_type_to_size(t) ==
    CASE t = "LEGACY" -> ALLOC_HDR_LEGACY_SIZE
      [] t = "COMPACT" -> ALLOC_HDR_COMPACT_SIZE
      [] t = "NONE" -> 0

memblock_header_type(m) ==
    LET h == heap_get_chunk_hdr(m)
    IN  IF "COMPACT_HEADER" \in h.flags THEN "COMPACT"
        ELSE IF "HEADER_NONE" \in h.flags THEN "NONE"
        ELSE "LEGACY"

\* offset of the data of chunk m.chunk_id of zone m.zone_id
heap_get_chunk(m) ==
    ZONE0_OFFSET + ZONE_MAX_SIZE * m.zone_id + SIZEOF_ZONE
        + CHUNKSIZE * m.chunk_id

heap_get_chunk_run(m) == run[<<m.zone_id, m.chunk_id>>]

\* offset of run->data: the run's metadata comes first in its chunk
run_data(m) == heap_get_chunk(m) + RUN_METASIZE

huge_block_size(m) == CHUNKSIZE

run_block_size(m) == heap_get_chunk_run(m).block_size

huge_get_real_data(m) == heap_get_chunk(m)

\* h is the chunk header consulted, r the run's metadata, data the offset
\* of run->data
run_get_data_start(h, r, data, htype) ==
    IF "ALIGNED" \in h.flags
    THEN LET hsize == header_type_to_size(htype)
             base == data + hsize
         IN  ALIGN_UP(base, r.alignment) - hsize
    ELSE data

run_get_alignment_padding(h, r, data, htype) ==
    run_get_data_start(h, r, data, htype) - data

run_get_real_data(m) ==
    run_get_data_start(heap_get_chunk_hdr(m), heap_get_chunk_run(m),
                       run_data(m), m.header_type)
        + heap_get_chunk_run(m).block_size * m.block_off

\* m_ops dispatch on the block type
block_size(m) ==
    IF m.type = "RUN" THEN run_block_size(m) ELSE huge_block_size(m)

get_real_data(m) ==
    IF m.type = "RUN" THEN run_get_real_data(m) ELSE huge_get_real_data(m)

\* Faulty variant of block_get_user_data: the legacy header size whatever
\* the flavor.
block_get_user_data_legacy_only(m) ==
    get_real_data(m) + ALLOC_HDR_LEGACY_SIZE

block_get_user_data(m) ==
    get_real_data(m) + header_type_to_size(m.header_type)

\* An allocation header in memory: three 64-bit words (size, the extra
\* field, root_size), each kept as its low 48 bits and its high 16 bits.
Word(lo, hi) == [lo |-> lo, hi |-> hi]
ZeroAhdr == <<Word(0, 0), Word(0, 0), Word(0, 0)>>
ReadAhdr(a) == IF a \in DOMAIN ahdr THEN ahdr[a].w ELSE ZeroAhdr
\* the value of a word whose high 16 bits are clear
Value64(w) == IF w.hi = 0 THEN w.lo ELSE -1

memblock_header_legacy_get_size(m) == Value64(ReadAhdr(get_real_data(m))[1])

memblock_header_compact_get_size(m) == ReadAhdr(get_real_data(m))[1].lo

\* Faulty variant of memblock_header_none_get_size: the unit size times
\* size_idx.
memblock_header_none_get_size_by_idx(m) == block_size(m) * m.size_idx

memblock_header_none_get_size(m) == block_size(m)

get_size(m) ==
    CASE m.header_type = "LEGACY" -> memblock_header_legacy_get_size(m)
      [] m.header_type = "COMPACT" -> memblock_header_compact_get_size(m)
      [] m.header_type = "NONE" -> memblock_header_none_get_size(m)

memblock_header_legacy_write(m, size, extra, flags) ==
    <<Word(size, 0), Word(extra, 0), Word(0, flags)>>

memblock_header_compact_write(m, size, extra, flags) ==
    <<Word(size, flags), Word(extra, 0), ReadAhdr(get_real_data(m))[3]>>

block_get_real_size(m) ==
    IF m.size_idx # 0 THEN block_size(m) * m.size_idx ELSE get_size(m)

\* the header words block_write_header leaves at get_real_data(m);
\* a block without a header has nothing written
block_write_header(m, extra_field, flags) ==
    CASE m.header_type = "LEGACY" ->
            memblock_header_legacy_write(m, block_get_real_size(m),
                                         extra_field, flags)
      [] m.header_type = "COMPACT" ->
            memblock_header_compact_write(m, block_get_real_size(m),
                                          extra_field, flags)
      [] m.header_type = "NONE" -> ReadAhdr(get_real_data(m))

memblock_detect_type(m) ==
    LET t == heap_get_chunk_hdr(m).type
    IN  IF t \in {"RUN", "RUN_DATA"} THEN "RUN"
        ELSE IF t \in {"FREE", "USED", "FOOTER"} THEN "HUGE"
        ELSE "FATAL"

memblock_rebuild_state(m) ==
    LET m1 == [zone_id |-> m.zone_id, chunk_id |-> m.chunk_id,
               block_off |-> m.block_off, size_idx |-> m.size_idx,
               header_type |-> memblock_header_type(m), type |-> "HUGE"]
    IN  [m1 EXCEPT !.type = memblock_detect_type(m)]

memblock_from_offset_opt(off, size, dbg) ==
    LET off1 == off - ZONE0_OFFSET
        zone_id == off1 \div ZONE_MAX_SIZE
        off2 == off1 - (ZONE_MAX_SIZE * zone_id + SIZEOF_ZONE)
        chunk0 == off2 \div CHUNKSIZE
        \* the header the local `hdr` points at, read before chunk_id is
        \* moved back to the head of the run
        h0 == hdr[<<zone_id, chunk0>>]
        chunk_id == IF h0.type = "RUN_DATA" THEN chunk0 - h0.size_idx
                    ELSE chunk0
        off3 == off2 - CHUNKSIZE * chunk_id
        m0 == [zone_id |-> zone_id, chunk_id |-> chunk_id, block_off |-> 0,
               size_idx |-> 0, header_type |-> "LEGACY", type |-> "HUGE"]
        m1 == [m0 EXCEPT !.header_type = memblock_header_type(m0)]
        off4 == off3 - header_type_to_size(m1.header_type)
        m2 == [m1 EXCEPT !.type = IF off4 # 0 THEN "RUN" ELSE "HUGE"]
        detected == memblock_detect_type(m2) = m2.type
        unit_size == block_size(m2)
        padding == run_get_alignment_padding(h0, heap_get_chunk_run(m2),
                                             run_data(m2), m2.header_type)
        off5 == off4 - padding - RUN_METASIZE
        block_off == (off5 \div unit_size) % UINT16_RANGE
        off6 == off5 - block_off * unit_size
        m3 == IF off4 # 0 THEN [m2 EXCEPT !.block_off = block_off] ELSE m2
        residual == IF off4 # 0 THEN off6 ELSE off4
        m4 == [m3 EXCEPT !.size_idx =
                  IF ~size THEN 0 ELSE CALC_SIZE_IDX(unit_size, get_size(m3))]
    IN  IF dbg /\ ~detected
        THEN [status |-> "ABORT", m |-> m2, residual |-> off4, padding |-> 0]
        \* without the assertion the data of a chunk that is no run is read
        \* as run metadata
        ELSE IF off4 # 0 /\ <<zone_id, chunk_id>> \notin DOMAIN run
        THEN [status |-> "UB", m |-> m2, residual |-> off4, padding |-> 0]
        ELSE IF dbg /\ residual # 0
        THEN [status |-> "ABORT", m |-> m4, residual |-> residual,
              padding |-> IF off4 # 0 THEN padding ELSE 0]
        ELSE [status |-> "OK", m |-> m4, residual |-> residual,
              padding |-> IF off4 # 0 THEN padding ELSE 0]

\* ---- the heap the offsets are resolved in

HeaderFlags == {{}, {"COMPACT_HEADER"}, {"HEADER_NONE"}}

\* (block_size, alignment) of the run; alignment 0 for a run that is not
\* aligned
RunGeometries ==
    {[block_size |-> 128, alignment |-> 0],
     [block_size |-> 1024, alignment |-> 0],
     [block_size |-> 128, alignment |-> 64],
     [block_size |-> 1024, alignment |-> 256]}

\* Every zone alike: one huge block of s0 chunks at chunk 0, single used
\* chunks up to the run, then the run: its RUN head and RunSpan - 1
\* RUN_DATA chunks whose size_idx is the distance back to the head.
LayoutHdr(s0, hflags, rflags, rdflags) ==
    [s \in LSlots |->
        LET c == s[2]
        IN  IF c = 0
            THEN chunk_get_chunk_hdr_value("USED", hflags, s0)
            ELSE IF c < s0 - 1 THEN ZeroHdr
            ELSE IF c = s0 - 1
            THEN chunk_get_chunk_hdr_value("FOOTER", {}, s0)
            ELSE IF c \in HugeChunks
            THEN chunk_get_chunk_hdr_value("USED", hflags, 1)
            ELSE IF c = RunChunk
            THEN chunk_get_chunk_hdr_value("RUN", rflags, RunSpan)
            ELSE chunk_get_chunk_hdr_value("RUN_DATA", rdflags,
                                           c - RunChunk)]

InitLayoutWith(s0, hflags, rflavor, g, rdflags) ==
    /\ debug \in BOOLEAN
    /\ hdr = LayoutHdr(s0, hflags,
                 rflavor \cup (IF g.alignment # 0 THEN {"ALIGNED"} ELSE {}),
                 rdflags)
    /\ run = [s \in LZones \X {RunChunk} |-> g]
    /\ ahdr = <<>>
    /\ thr = NoThreads
    /\ dirty = {}
    /\ bitmap = [w \in 0 .. (NWords - 1) |-> {}]
    /\ ctx = <<>>
    /\ prog = <<>>
    /\ call = NoCall
    /\ ret = "none"
    /\ nops = 0
    /\ last = "init"

\* The flags of a RUN_DATA header are set when the run is created, outside
\* this file: none, or the flags of the run's head.
InitLayout ==
    \/ \E s0 \in 1 .. NHuge, hflags \in SUBSET {"COMPACT_HEADER", "HEADER_NONE"} :
          InitLayoutWith(s0, hflags, {}, [block_size |-> 128, alignment |-> 0], {})
    \/ \E rflavor \in HeaderFlags, g \in RunGeometries, copy \in BOOLEAN :
          InitLayoutWith(1, {}, rflavor, g,
              IF copy
              THEN rflavor \cup (IF g.alignment # 0 THEN {"ALIGNED"} ELSE {})
              ELSE {})

\* huge blocks the allocator holds: the used heads of a zone
LHugeBlocks ==
    {memblock_rebuild_state([zone_id |-> z, chunk_id |-> c, block_off |-> 0,
                             size_idx |-> hdr[<<z, c>>].size_idx]) :
        z \in LZones,
        c \in {k \in HugeChunks : hdr[<<0, k>>].type = "USED"}}

\* block offsets: the first block, the last block of the run's first chunk
\* and the first block past it
LRunOffs(g) ==
    LET k == (CHUNKSIZE - RUN_METASIZE) \div g.block_size
    IN  {0, k - 1, k}

LRunBlocks ==
    {memblock_rebuild_state([zone_id |-> z, chunk_id |-> RunChunk,
                             block_off |-> b, size_idx |-> s]) :
        z \in LZones, b \in LRunOffs(run[<<0, RunChunk>>]), s \in 1 .. 2}

LCall(fn, m, off, want, res) ==
    [fn |-> fn, m |-> m, op |-> "FREE", t |-> "LEGACY", ctxnull |-> FALSE,
     steps |-> <<>>, off |-> off, want |-> want, res |-> res]

\* the size a header of m would hold has been written, or m has no header
HeaderWritten(m) ==
    \/ m.header_type = "NONE"
    \/ /\ get_real_data(m) \in DOMAIN ahdr
       /\ ahdr[get_real_data(m)].by = m

\* A resolution changes nothing in the heap: a behaviour ends with it.
LIdle == Idle /\ call.fn \notin {"from_offset", "get_size"}

\* memblock_from_offset_opt on the user-data offset of the block m; the
\* size is asked for only where write_header has stored one
FromOffset(m, want) ==
    /\ LIdle
    /\ want => HeaderWritten(m)
    /\ LET r == memblock_from_offset_opt(block_get_user_data(m), want, debug)
       IN  /\ call' = LCall("from_offset", m, block_get_user_data(m), want,
                            [m |-> r.m, residual |-> r.residual,
                             padding |-> r.padding, size |-> 0])
           /\ ret' = r.status
    /\ last' = "return"
    /\ UNCHANGED <<debug, hdr, dirty, bitmap, ctx, prog, nops, run, ahdr, thr>>

FromOffsetHuge == \E m \in LHugeBlocks, want \in BOOLEAN : FromOffset(m, want)

FromOffsetRun == \E m \in LRunBlocks, want \in BOOLEAN : FromOffset(m, want)

\* memblock_header_ops[m->header_type].get_size(m) for a block of the heap
\* with any size_idx a descriptor may carry, 0 included, asked where a
\* size can be found: a header was written there, or the block has none.
\* Like a resolution it changes nothing.
GetSize ==
    \E b \in LHugeBlocks \cup LRunBlocks, zero \in BOOLEAN :
        LET m == IF zero THEN [b EXCEPT !.size_idx = 0] ELSE b
        IN  /\ LIdle
            /\ m.header_type = "NONE" \/ get_real_data(m) \in DOMAIN ahdr
            /\ call' = LCall("get_size", m, get_real_data(m), FALSE,
                             [m |-> m, residual |-> 0, padding |-> 0,
                              size |-> get_size(m)])
            /\ ret' = "OK"
            /\ last' = "return"
            /\ UNCHANGED <<debug, hdr, dirty, bitmap, ctx, prog, nops, run,
                           ahdr, thr>>

ExtraFields == {7}
AllocFlags == {3}

\* m_ops->write_header of the block m; `by` remembers the block the header
\* at an offset was written for
WriteHeader ==
    \E m \in LHugeBlocks \cup LRunBlocks, extra \in ExtraFields,
       flags \in AllocFlags :
        /\ LIdle
        /\ nops < MaxWrites
        /\ nops' = nops + 1
        /\ call' = LCall("write_header", m, get_real_data(m), FALSE, NoRes)
        /\ ret' = "OK"
        /\ last' = "return"
        /\ ahdr' = IF m.header_type = "NONE" THEN ahdr
                   ELSE [a \in DOMAIN ahdr \cup {get_real_data(m)} |->
                           IF a = get_real_data(m)
                           THEN [w |-> block_write_header(m, extra, flags),
                                 by |-> m]
                           ELSE ahdr[a]]
        /\ UNCHANGED <<debug, hdr, dirty, bitmap, ctx, prog, run, thr>>

\* ---------------------------------------------------------------------
\* Two threads on one run.  Each takes the mutex get_lock gives for its
\* block, prepares its operation into a context of its own, has the
\* context processed and releases the mutex.  Processing an OR / AND entry
\* reads the bitmap word and writes it back: two steps another thread can
\* come between unless a mutex keeps it out.

Threads == {1, 2}

\* heap_get_run_lock: the heap's mutex for the run at chunk_id
heap_get_run_lock(chunk_id) == <<"run_lock", chunk_id>>

\* Faulty variant of run_get_lock: a mutex of the block, not of the run.
run_get_lock_per_block(m) == heap_get_run_lock(m.chunk_id + m.block_off)

run_get_lock(m) == heap_get_run_lock(m.chunk_id)

\* bits of bitmap word 0 that stand for the block m
BlockBits(m) == {i \in Bits : m.block_off <= i /\ i < m.block_off + m.size_idx}

TBlocks == {Block(RunChunk, o, s) : o \in {0, 1, BITS_PER_VALUE - 2},
                                    s \in {1, 2}}

\* a bit of the word that belongs to neither thread's block
OtherBit == 40

Thread(m, op) == [pc |-> "start", m |-> m, op |-> op, ctx |-> <<>>, tmp |-> {}]

InitThreads ==
    \E m1 \in TBlocks, m2 \in TBlocks, op1 \in OPS, op2 \in OPS,
       set1 \in BOOLEAN, set2 \in BOOLEAN, other \in BOOLEAN :
        /\ BlockBits(m1) \cap BlockBits(m2) = {}
        /\ debug \in BOOLEAN
        /\ hdr = [s \in Slots |->
                    IF s[2] \in HugeChunks
                    THEN chunk_get_chunk_hdr_value("FREE", {}, 1)
                    ELSE IF s[2] = RunChunk
                    THEN chunk_get_chunk_hdr_value("RUN", {}, 1)
                    ELSE ZeroHdr]
        /\ dirty = {}
        /\ LET w0 == (IF set1 THEN BlockBits(m1) ELSE {})
                        \cup (IF set2 THEN BlockBits(m2) ELSE {})
                        \cup (IF other THEN {OtherBit} ELSE {})
           IN  /\ bitmap = [w \in 0 .. (NWords - 1) |-> IF w = 0 THEN w0 ELSE {}]
               /\ thr = [held |-> {}, init |-> w0,
                         th |-> <<Thread(m1, op1), Thread(m2, op2)>>]
        /\ ctx = <<>>
        /\ prog = <<>>
        /\ call = NoCall
        /\ ret = "NONE"
        /\ nops = 0
        /\ last = "init"
        /\ run = [s \in {<<0, RunChunk>>} |->
                    [block_size |-> 128, alignment |-> 0]]
        /\ ahdr = <<>>

\* thread t moves on, leaving the other thread as it is
TStep(t, new, held, word) ==
    /\ thr' = [thr EXCEPT !.th[t] = new, !.held = held]
    /\ bitmap' = word
    /\ last' = "thread"
    /\ UNCHANGED <<debug, hdr, dirty, ctx, prog, call, ret, nops, run, ahdr>>

\* os_mutex_lock(get_lock(m))
TLock ==
    \E t \in Threads :
        LET me == thr.th[t]
            l == run_get_lock(me.m)
        IN  /\ me.pc = "start"
            /\ \A u \in Threads : <<l, u>> \notin thr.held
            /\ TStep(t, [me EXCEPT !.pc = "locked"],
                     thr.held \cup {<<l, t>>}, bitmap)

\* prep_hdr(m, op, ctx) with the thread's own context
TPrep ==
    \E t \in Threads :
        LET me == thr.th[t]
            steps == run_prep_operation_hdr(me.m, me.op, debug, "wrap")
        IN  /\ me.pc = "locked"
            /\ \A i \in DOMAIN steps : steps[i].k = "add"
            /\ TStep(t, [me EXCEPT !.pc = "prepped",
                            !.ctx = [i \in DOMAIN steps |->
                                       [a |-> steps[i].a, v |-> steps[i].v,
                                        op |-> steps[i].op,
                                        kind |-> steps[i].kind]]],
                     thr.held, bitmap)

\* processing the context: the word of the first entry is read ...
TCommitRead ==
    \E t \in Threads :
        LET me == thr.th[t]
        IN  /\ me.pc = "prepped"
            /\ me.ctx # <<>>
            /\ TStep(t, [me EXCEPT !.pc = "read",
                            !.tmp = bitmap[Head(me.ctx).a[2]]],
                     thr.held, bitmap)

\* ... and written back with the entry applied
TCommitWrite ==
    \E t \in Threads :
        LET me == thr.th[t]
            e == Head(me.ctx)
        IN  /\ me.pc = "read"
            /\ TStep(t, [me EXCEPT !.pc = IF Tail(me.ctx) = <<>>
                                          THEN "committed" ELSE "prepped",
                            !.ctx = Tail(me.ctx), !.tmp = {}],
                     thr.held,
                     [bitmap EXCEPT ![e.a[2]] = ApplyOp(me.tmp, e)])

\* os_mutex_unlock(get_lock(m))
TUnlock ==
    \E t \in Threads :
        LET me == thr.th[t]
        IN  /\ me.pc = "committed"
            /\ TStep(t, [me EXCEPT !.pc = "done"],
                     thr.held \ {<<run_get_lock(me.m), t>>}, bitmap)

NextHuge == HugePrep \/ HugeEnsure \/ HugeGetState \/ Step \/ Commit \/ Discard
NextRun == RunPrep \/ RunGetState \/ Step \/ Commit \/ Discard
Next == HugePrep \/ RunPrep \/ Step \/ Commit \/ Discard
NextLayout == FromOffsetHuge \/ FromOffsetRun \/ WriteHeader \/ GetSize
NextThreads == TLock \/ TPrep \/ TCommitRead \/ TCommitWrite \/ TUnlock

Spec == Init /\ [][Next]_vars
SpecHuge == InitHuge /\ [][NextHuge]_vars
SpecRun == Init /\ [][NextRun]_vars
SpecLayout == InitLayout /\ [][NextLayout]_vars
SpecThreads == InitThreads /\ [][NextThreads]_vars

(***************************************************************************)
(* Properties.                                                             *)
(***************************************************************************)
\* the micro-operations the call in progress has done
Executed == SubSeq(call.steps, 1, Len(call.steps) - Len(prog))

HeadAddrOf(c) == HdrAddr(c.m.zone_id, c.m.chunk_id)
FooterAddrOf(c) == HdrAddr(c.m.zone_id, c.m.chunk_id + c.m.size_idx - 1)
FooterValOf(c) == [type |-> "FOOTER", flags |-> {}, size_idx |-> c.m.size_idx]

\* the redo entry an "add" micro-operation appends
EntryOf(s) == [a |-> s.a, v |-> s.v, op |-> s.op, kind |-> s.kind]

\* C1: in huge prep_hdr of a block with size_idx > 1 the footer slot is
\* stored to (ctx == NULL) only after the head header was stored and
\* persisted, and is appended to the context (ctx != NULL), as a transient
\* entry, only after the persistent SET entry of the head.
C1_HeadBeforeFooter ==
    /\ (call.fn = "huge_prep_hdr" /\ call.m.size_idx > 1) =>
          \A i \in DOMAIN Executed :
             (Executed[i].k \in {"store", "add"}
                    /\ Executed[i].a = FooterAddrOf(call)) =>
                IF call.ctxnull
                THEN /\ Executed[i].k = "store"
                     /\ \E j \in 1 .. (i - 1), k \in 1 .. (i - 1) :
                           /\ j < k
                           /\ Executed[j].k = "store"
                           /\ Executed[j].a = HeadAddrOf(call)
                           /\ Executed[k].k = "persist"
                           /\ Executed[k].a = HeadAddrOf(call)
                     /\ last = "step" =>
                           /\ hdr[HeadAddrOf(call)[2]].size_idx = call.m.size_idx
                           /\ hdr[HeadAddrOf(call)[2]].type
                                 = (IF call.op = "ALLOCATED" THEN "USED" ELSE "FREE")
                           /\ HeadAddrOf(call)[2] \notin dirty
                ELSE /\ Executed[i].k = "add"
                     /\ Executed[i].kind = "LOG_TRANSIENT"
                     /\ \E j \in 1 .. (i - 1) :
                           /\ Executed[j].k = "add"
                           /\ Executed[j].a = HeadAddrOf(call)
                           /\ Executed[j].op = "SET"
                           /\ Executed[j].kind = "LOG_PERSISTENT"
    /\ \A i \in DOMAIN ctx :
          (ctx[i].a[1] = "hdr" /\ ctx[i].kind = "LOG_TRANSIENT"
                /\ ctx[i].v.size_idx > 1) =>
             \E j \in 1 .. (i - 1) :
                /\ ctx[j].kind = "LOG_PERSISTENT"
                /\ ctx[j].op = "SET"
                /\ ctx[j].a = HdrAddr(ctx[i].a[2][1],
                                      ctx[i].a[2][2] - ctx[i].v.size_idx + 1)
                /\ ctx[j].v.size_idx = ctx[i].v.size_idx

\* a direct huge prep_hdr of a multi-unit block has just written its footer
\* while the context holds a footer entry of another call
C1_Witness ==
    /\ call.fn = "huge_prep_hdr" /\ call.m.size_idx > 1 /\ call.ctxnull
    /\ prog = <<>> /\ last = "step"
    /\ hdr[FooterAddrOf(call)[2]].type = "FOOTER"
    /\ Len(ctx) = 2 /\ ctx[2].kind = "LOG_TRANSIENT"

\* C2: once huge prep_hdr(m, ALLOCATED, ctx) with m.size_idx > 1 has returned
\* (ctx == NULL), or the context holding its entries has been processed
\* (ctx != NULL), slot chunk_id + size_idx - 1 holds (FOOTER, 0, size_idx).
C2_FooterInvariant ==
    [][ /\ (/\ call.fn = "huge_prep_hdr" /\ call.op = "ALLOCATED"
            /\ call.m.size_idx > 1 /\ call.ctxnull
            /\ prog # <<>> /\ prog' = <<>>)
              => hdr'[FooterAddrOf(call)[2]] = FooterValOf(call)
        /\ (/\ call.fn = "huge_prep_hdr" /\ call.op = "ALLOCATED"
            /\ call.m.size_idx > 1 /\ ~call.ctxnull
            /\ prog = <<>> /\ ret = "OK"
            /\ ctx = [i \in DOMAIN call.steps |-> EntryOf(call.steps[i])]
            /\ last' = "commit")
              => hdr'[FooterAddrOf(call)[2]] = FooterValOf(call)
      ]_vars

C2_Witness ==
    /\ call.fn = "huge_prep_hdr" /\ call.op = "ALLOCATED"
    /\ call.m.size_idx > 1 /\ ~call.ctxnull
    /\ last = "commit" /\ nops = 1
    /\ hdr[FooterAddrOf(call)[2]] = FooterValOf(call)

\* the bits of a block's range, [block_off mod 64, block_off mod 64 + size_idx)
RangeOf(m) ==
    {i \in Bits : /\ (m.block_off % BITS_PER_VALUE) <= i
                  /\ i < (m.block_off % BITS_PER_VALUE) + m.size_idx}
InOneWord(m) == (m.block_off % BITS_PER_VALUE) + m.size_idx <= BITS_PER_VALUE

\* C3: for a run block whose bit range lies inside one bitmap word, run
\* get_state returns FREE iff every bit of the range is clear in word
\* block_off / 64 and ALLOCATED iff one of them is set.
C3_BitmapInversion ==
    (call.fn = "run_get_state" /\ last = "return" /\ InOneWord(call.m)) =>
        LET word == bitmap[call.m.block_off \div BITS_PER_VALUE]
        IN  /\ ret = "FREE" <=> (RangeOf(call.m) \cap word) = {}
            /\ ret = "ALLOCATED" <=> (RangeOf(call.m) \cap word) # {}

\* FREE is returned while bits outside the range are set
C3_Witness ==
    /\ call.fn = "run_get_state" /\ last = "return" /\ InOneWord(call.m)
    /\ ret = "FREE"
    /\ bitmap[call.m.block_off \div BITS_PER_VALUE] # {}

\* the entry the claim gives for run prep_hdr(m, op, ctx)
C4_Entry(m, op) ==
    LET bmask == IF m.size_idx = BITS_PER_VALUE THEN Bits ELSE RangeOf(m)
    IN  [a |-> <<"bitmap", m.block_off \div BITS_PER_VALUE>>,
         v |-> IF op = "ALLOCATED" THEN bmask ELSE Bits \ bmask,
         op |-> IF op = "ALLOCATED" THEN "OR" ELSE "AND",
         kind |-> "LOG_PERSISTENT"]

\* the block meets what run prep_hdr requires of it (in a build without
\* DEBUG the alignment of a 64-unit block is not looked at)
C4_Applies(c) ==
    /\ c.fn = "run_prep_hdr" /\ c.op \in OPS
    /\ c.m.size_idx <= BITS_PER_VALUE
    /\ (c.m.size_idx = BITS_PER_VALUE /\ debug)
          => c.m.block_off % BITS_PER_VALUE = 0

\* C4: run prep_hdr(m, op, ctx) appends exactly one redo entry, on bitmap
\* word block_off / 64: (word, bmask, OR) for ALLOCATED, (word, ~bmask, AND)
\* for FREE, bmask being UINT64_MAX when size_idx = 64 and otherwise
\* ((1 << size_idx) - 1) << (block_off mod 64).
C4_RunPrepEntry ==
    /\ [](C4_Applies(call) => Len(call.steps) = 1)
    /\ [][ (C4_Applies(call) /\ prog # <<>>)
              => /\ ctx' = Append(ctx, C4_Entry(call.m, call.op))
                 /\ prog' = <<>> /\ ret' = "OK" ]_vars

C4_Witness ==
    /\ call.fn = "run_prep_hdr" /\ call.op = "ALLOCATED"
    /\ call.m.size_idx = BITS_PER_VALUE /\ call.m.block_off = BITS_PER_VALUE
    /\ last = "step" /\ ret = "OK"
    /\ ctx[Len(ctx)] = C4_Entry(call.m, call.op)

\* C7: once huge ensure_header_type(m, flavor) has returned on a FREE chunk,
\* a further call with the same flavor stores nothing that differs from the
\* chunk header as it is; and no call changes the type or the size_idx of
\* the chunk header, or any other slot.
C7_EnsureIdempotent ==
    /\ []((/\ call.fn = "huge_ensure_header_type"
           /\ prog = <<>> /\ ret = "OK" /\ last \in {"call", "step"}
           /\ heap_get_chunk_hdr(call.m).type = "FREE")
            => LET again == huge_ensure_header_type(call.m, call.t, debug)
               IN  \A i \in DOMAIN again :
                      /\ again[i].k \in {"store", "persist"}
                      /\ again[i].a = HeadAddrOf(call)
                      /\ again[i].k = "store"
                            => again[i].v = heap_get_chunk_hdr(call.m))
    /\ [][ (call.fn = "huge_ensure_header_type" /\ prog # <<>>)
              => /\ \A s \in Slots :
                      s # HeadAddrOf(call)[2] => hdr'[s] = hdr[s]
                 /\ hdr'[HeadAddrOf(call)[2]].type
                       = hdr[HeadAddrOf(call)[2]].type
                 /\ hdr'[HeadAddrOf(call)[2]].size_idx
                       = hdr[HeadAddrOf(call)[2]].size_idx ]_vars

\* a second call in a row found the flag of its flavor set
C7_Witness ==
    /\ call.fn = "huge_ensure_header_type" /\ call.t = "COMPACT"
    /\ nops = 2 /\ last = "call" /\ ret = "OK" /\ call.steps = <<>>
    /\ "COMPACT_HEADER" \in heap_get_chunk_hdr(call.m).flags
    /\ "HEADER_NONE" \in heap_get_chunk_hdr(call.m).flags

\* C9: a micro-operation of prep_hdr called with a context (huge or run),
\* and the dropping of the context, leave every chunk header, its persisted
\* state and every bitmap word as they were.
C9_NoDirectStore ==
    [][ (\/ (/\ call.fn \in {"huge_prep_hdr", "run_prep_hdr"}
             /\ ~call.ctxnull /\ prog # <<>>)
         \/ last' = "discard")
           => (hdr' = hdr /\ dirty' = dirty /\ bitmap' = bitmap) ]_vars

\* a context holding the two entries of a huge prep_hdr was dropped
C9_Witness ==
    /\ call.fn = "huge_prep_hdr" /\ ~call.ctxnull /\ call.m.size_idx > 1
    /\ call.op = "ALLOCATED"
    /\ last = "discard" /\ nops = 1
    /\ hdr[HeadAddrOf(call)[2]].type = "FREE"

\* C10 as claimed: in a DEBUG build a run block with size_idx > 64, or whose
\* bit range extends past bit 63, makes run prep_hdr and run get_state fail
\* an assertion, and run prep_hdr appends no entry for it.
C10_Rejected ==
    (/\ debug
     /\ call.fn \in {"run_prep_hdr", "run_get_state"}
     /\ prog = <<>>
     /\ (call.m.size_idx > BITS_PER_VALUE \/ ~InOneWord(call.m)))
       => ret = "ABORT"


\* ---------------------------------------------------------------------
\* Resolving offsets

Resolved == last = "return" /\ call.fn = "from_offset"

\* the descriptor returned names the block m and nothing of the offset is
\* left over
SameBlock(m) ==
    /\ ret = "OK"
    /\ call.res.m.type = m.type
    /\ call.res.m.zone_id = m.zone_id
    /\ call.res.m.chunk_id = m.chunk_id
    /\ call.res.m.block_off = m.block_off
    /\ call.res.m.header_type = m.header_type
    /\ call.res.residual = 0
    /\ block_get_user_data(call.res.m) = call.off

\* C5: for every run block m (any header flavor, aligned or not, any
\* valid block_off) memblock_from_offset_opt of get_user_data(m) returns a
\* descriptor of type RUN with the chunk_id of the run's head and the same
\* block_off, leaves no residual, and get_user_data of the result is the
\* offset again.
C5_RunRoundTrip ==
    (Resolved /\ call.m.type = "RUN") => SameBlock(call.m)

\* C6: for every huge block m (any header flavor, any zone and chunk)
\* memblock_from_offset_opt of get_user_data(m) returns a descriptor of
\* type HUGE with the same zone_id and chunk_id and leaves no residual.
C6_HugeRoundTrip ==
    (Resolved /\ call.m.type = "HUGE") => SameBlock(call.m)

C6_Witness ==
    /\ Resolved
    /\ call.m.type = "HUGE"
    /\ call.m.zone_id = 1
    /\ call.m.size_idx > 1
    /\ call.m.header_type = "COMPACT"
    /\ call.res.m.type = "HUGE"
    /\ ret = "OK"

\* C8: for a block with a legacy or compact header and size_idx >= 1,
\* after write_header the size block_size * size_idx equals the size read
\* from the allocation header by the same block with size_idx 0, and
\* memblock_from_offset_opt asked for the size recovers size_idx.
C8_SizeRoutesAgree ==
    /\ \A a \in DOMAIN ahdr :
          LET m == ahdr[a].by
          IN  block_get_real_size(m)
                  = block_get_real_size([m EXCEPT !.size_idx = 0])
    /\ (/\ Resolved
        /\ call.want
        /\ call.m.header_type \in {"LEGACY", "COMPACT"})
           => (ret = "OK" /\ call.res.m.size_idx = call.m.size_idx)

\* ---------------------------------------------------------------------
\* Threads

AllDone == thr.th # <<>> /\ \A t \in Threads : thr.th[t].pc = "done"

\* the word after the operation of thread t alone: the bits of its block
\* set for ALLOCATED, clear for FREE
AfterThread(word, t) ==
    IF thr.th[t].op = "ALLOCATED"
    THEN word \cup BlockBits(thr.th[t].m)
    ELSE word \ BlockBits(thr.th[t].m)

\* C11: two threads on disjoint blocks of one run that share a bitmap
\* word, each holding the mutex of get_lock from before prep_hdr until its
\* context is processed: whatever the interleaving, the final word shows
\* both operations and no other bit is changed.
C11_BothReflected ==
    AllDone => bitmap[0] = AfterThread(AfterThread(thr.init, 1), 2)

C11_Witness ==
    /\ AllDone
    /\ thr.th[1].op = "ALLOCATED"
    /\ thr.th[2].op = "FREE"
    /\ BlockBits(thr.th[2].m) \subseteq thr.init
    /\ OtherBit \in bitmap[0]
    /\ bitmap[0] # thr.init

\* the chunk header slot an offset falls in
SlotOfOffset(off) ==
    LET off1 == off - ZONE0_OFFSET
        zone_id == off1 \div ZONE_MAX_SIZE
        off2 == off1 - (ZONE_MAX_SIZE * zone_id + SIZEOF_ZONE)
    IN  <<zone_id, off2 \div CHUNKSIZE>>

\* C12: when the offset falls in a chunk whose header is RUN_DATA,
\* memblock_from_offset_opt moves chunk_id back to the RUN head and decodes
\* the rest with the head's header: the header flavor, the ALIGNED flag and
\* the alignment padding are the head's, and block_off is the allocator's.
C12_HeadHeaderUsed ==
    (Resolved /\ hdr[SlotOfOffset(call.off)].type = "RUN_DATA")
        => /\ call.res.m.chunk_id = call.m.chunk_id
           /\ call.res.m.header_type = memblock_header_type(call.m)
           /\ call.res.padding =
                  run_get_alignment_padding(heap_get_chunk_hdr(call.m),
                      heap_get_chunk_run(call.m), run_data(call.m),
                      memblock_header_type(call.m))
           /\ ret = "OK"
           /\ call.res.m.block_off = call.m.block_off

\* ---------------------------------------------------------------------
\* Sizes

Sized == last = "return" /\ call.fn = "get_size"

\* the unit size of the block the allocator set up: CHUNKSIZE for a huge
\* block, the block_size of the run's metadata for a run block
UnitSize(m) ==
    IF m.type = "HUGE" THEN CHUNKSIZE
    ELSE run[<<m.zone_id, RunChunk>>].block_size

\* C13 as stated: for the header-none flavor get_size returns the block's
\* unit size multiplied by size_idx, for every block kind and size_idx.
C13_UnitTimesIdx ==
    (Sized /\ call.m.header_type = "NONE")
        => call.res.size = UnitSize(call.m) * call.m.size_idx

\* C13 amended: for the header-none flavor get_size returns the block's
\* unit size whatever size_idx is (0, 1 or more), for every block kind; it
\* is the unit size multiplied by size_idx only when size_idx is 1.
C13_UnitSize ==
    (Sized /\ call.m.header_type = "NONE")
        => /\ call.res.size = UnitSize(call.m)
           /\ (call.res.size = UnitSize(call.m) * call.m.size_idx)
                  <=> (call.m.size_idx = 1)

C13_Witness ==
    /\ Sized
    /\ call.m.header_type = "NONE"
    /\ call.m.type = "RUN"
    /\ call.m.size_idx = 2
    /\ call.res.size = 1024

\* ---------------------------------------------------------------------
\* The head value of huge prep_hdr

\* the next micro-operation of a huge prep_hdr call is the one on the head
HeadStepNext ==
    /\ call.fn = "huge_prep_hdr"
    /\ prog # <<>>
    /\ Head(prog).a = HeadAddrOf(call)
    /\ Head(prog).k \in {"store", "add"}
    /\ last' = "step"

\* (type, flags, size_idx) packed from the operation, the flags the chunk
\* header holds and the descriptor
HeadValOf(c) ==
    [type |-> IF c.op = "ALLOCATED" THEN "USED" ELSE "FREE",
     flags |-> hdr[HeadAddrOf(c)[2]].flags,
     size_idx |-> c.m.size_idx]

\* C14: the head value huge prep_hdr stores (ctx == NULL) or puts in its
\* SET entry (ctx != NULL) is the packed (type, flags, size_idx): type USED
\* for ALLOCATED and FREE otherwise, the flags the chunk header had before
\* the call, the size_idx of the descriptor.
C14_HeadValue ==
    [][ HeadStepNext =>
          IF call.ctxnull
          THEN hdr'[HeadAddrOf(call)[2]] = HeadValOf(call)
          ELSE ctx' = Append(ctx, [a |-> HeadAddrOf(call),
                                   v |-> HeadValOf(call), op |-> "SET",
                                   kind |-> "LOG_PERSISTENT"])
      ]_vars

C14_Witness ==
    /\ call.fn = "huge_prep_hdr" /\ call.op = "ALLOCATED" /\ ~call.ctxnull
    /\ last = "step"
    /\ call.m.size_idx = 2
    /\ Len(ctx) = 1
    /\ ctx[1].v = [type |-> "USED", flags |-> {"ALIGNED", "COMPACT_HEADER"},
                   size_idx |-> 2]

\* ---------------------------------------------------------------------
\* The slots huge prep_hdr touches

\* a micro-operation of a huge prep_hdr call that stores to a slot or
\* appends an entry for it is about to run
TouchNext ==
    /\ call.fn = "huge_prep_hdr"
    /\ prog # <<>>
    /\ Head(prog).k \in {"store", "add"}
    /\ last' = "step"

\* C15: huge prep_hdr writes a footer only if size_idx > 1: for a
\* descriptor with size_idx <= 1 (size_idx 0 included) the only slot stored
\* to or named by a redo entry is the head slot chunk_id, and no slot other
\* than chunk_id and chunk_id + size_idx - 1 is ever modified.
C15_FooterOnlyIfLarger ==
    [][ TouchNext =>
          /\ Head(prog).a \in {HeadAddrOf(call), FooterAddrOf(call)}
          /\ \A s \in DOMAIN hdr :
                hdr'[s] # hdr[s] => HdrAddr(s[1], s[2]) = Head(prog).a
          /\ call.m.size_idx <= 1 => Head(prog).a = HeadAddrOf(call)
      ]_vars

\* ---------------------------------------------------------------------
\* get_state after prep_hdr

\* get_state(m) is r: for a run block, whatever an undefined shift gives
StateIs(m, isrun, r) ==
    IF isrun
    THEN \A ub \in ShiftChoices((m.block_off % BITS_PER_VALUE) + m.size_idx - 1) :
            run_get_state(m, debug, ub) = r
    ELSE huge_get_state(m) = r

IsPrep(c) == c.fn \in {"huge_prep_hdr", "run_prep_hdr"} /\ c.op \in OPS

\* the step with which the prep_hdr call in `call` takes effect: the last
\* step of a call without a context, or the processing of a context that
\* ends with the entries the call appended
TakesEffect ==
    /\ IsPrep(call)
    /\ call.m.size_idx >= 1
    /\ \/ call.ctxnull /\ prog # <<>> /\ prog' = <<>> /\ ret' = "OK"
       \/ /\ ~call.ctxnull /\ prog = <<>> /\ ret = "OK"
          /\ last' = "commit"
          /\ Len(ctx) >= Len(call.steps)
          /\ SubSeq(ctx, Len(ctx) - Len(call.steps) + 1, Len(ctx))
                = [i \in DOMAIN call.steps |-> EntryOf(call.steps[i])]

\* the huge block a chunk-header entry was prepared for: the head entry is
\* persistent and sits at chunk_id, the footer entry is transient and sits
\* at chunk_id + size_idx - 1
BlockOfEntry(e) ==
    IF e.kind = "LOG_TRANSIENT"
    THEN Block(e.a[2][2] - e.v.size_idx + 1, 0, e.v.size_idx)
    ELSE Block(e.a[2][2], 0, e.v.size_idx)

\* chunks of a huge descriptor: a descriptor whose size_idx is 0 (size still
\* to be read from the header) stands at its head chunk
ChunksOf(m) ==
    m.chunk_id .. (m.chunk_id + (IF m.size_idx = 0 THEN 1 ELSE m.size_idx) - 1)

HugeOverlap(a, b) == ChunksOf(a) \cap ChunksOf(b) # {}

\* bits of word w an OR / AND entry changes or may change
BitsOfEntry(e) == IF e.op = "OR" THEN e.v ELSE Bits \ e.v

\* the step is the effect of a prep_hdr on a block overlapping the huge
\* block m
HugeTouched(m) ==
    \/ /\ last' = "step" /\ call.fn = "huge_prep_hdr"
       /\ HugeOverlap(call.m, m)
    \/ /\ last' = "commit"
       /\ \E i \in DOMAIN ctx :
             ctx[i].a[1] = "hdr" /\ HugeOverlap(BlockOfEntry(ctx[i]), m)

\* the same for the run block m
RunTouched(m) ==
    /\ last' = "commit"
    /\ \E i \in DOMAIN ctx :
          /\ ctx[i].a = BitmapAddr(m.block_off \div BITS_PER_VALUE)
          /\ BitsOfEntry(ctx[i]) \cap RangeOf(m) # {}

\* blocks that obey the descriptor invariants
ValidHuge == {m \in HugeBlocks : m.size_idx >= 1}
ValidRun == {m \in RunBlocks : InOneWord(m)}

\* C16: for a block with size_idx >= 1, once prep_hdr(m, op, ctx) with op
\* ALLOCATED or FREE has taken effect (at once without a context, when the
\* context is processed otherwise) get_state(m) returns op, and goes on
\* doing so until a prep_hdr on an overlapping block takes effect.
C16_StateAfterPrep ==
    [][ /\ TakesEffect =>
            StateIs(call.m, call.fn = "run_prep_hdr", call.op)'
        /\ \A m \in ValidHuge, r \in MEMBLOCK_STATES :
              (StateIs(m, FALSE, r) /\ ~StateIs(m, FALSE, r)')
                  => HugeTouched(m)
        /\ \A m \in ValidRun, r \in MEMBLOCK_STATES :
              (StateIs(m, TRUE, r) /\ ~StateIs(m, TRUE, r)')
                  => RunTouched(m)
      ]_vars

\* C17: once huge ensure_header_type(m, t) has returned on a FREE chunk,
\* whatever t and whatever flags the chunk header had before, the flavor
\* read from the chunk header flags (compact if COMPACT_HEADER, else none
\* if HEADER_NONE, else legacy) is t, and the header does not carry
\* COMPACT_HEADER and HEADER_NONE together.
C17_FlavorIsEnsured ==
    (/\ call.fn = "huge_ensure_header_type"
     /\ prog = <<>> /\ ret = "OK" /\ last \in {"call", "step"}
     /\ heap_get_chunk_hdr(call.m).type = "FREE")
        => /\ memblock_header_type(call.m) = call.t
           /\ ~({"COMPACT_HEADER", "HEADER_NONE"}
                   \subseteq heap_get_chunk_hdr(call.m).flags)

============================================================================
